---- MODULE Spec2Model ----
(***************************************************************************)
(* A model of the trademark search service: the in-memory Dataset held by  *)
(* SearchmarkDatabase (app/db/database.py), its search_searchmarks and     *)
(* get_statistics methods, and the /searchmarks/search endpoint            *)
(* (app/routers/searchmarks.py).                                           *)
(*                                                                         *)
(* A Python str is a sequence of one-character strings, so that lower(),   *)
(* strip(), split(','), int(), substring containment and the edit          *)
(* similarity are computed rather than assumed.  A JSON value or an        *)
(* optional parameter is a tagged record: absent key, null/None, str,      *)
(* list of str, int.                                                       *)
(***************************************************************************)
EXTENDS Integers, Sequences, FiniteSets, TLC

VARIABLES data, loaded, pc, request, response, again

vars == <<data, loaded, pc, request, response, again>>

----------------------------------------------------------------------------
(* Bounds of the model. *)

\* longest Dataset that Init draws
MaxRecords == 3
\* largest limit a request carries
MaxLimit == 1
\* most criteria a single request sets
MaxCriteria == 2

----------------------------------------------------------------------------
(* Values. *)

Absent == [t |-> "absent"]
None == [t |-> "null"]
Str(s) == [t |-> "str", s |-> s]
List(l) == [t |-> "list", l |-> l]
Num(i) == [t |-> "int", i |-> i]

\* Python truthiness of item.get(key) / of an optional parameter
Truthy(v) ==
    CASE v.t = "absent" -> FALSE
      [] v.t = "null" -> FALSE
      [] v.t = "str" -> v.s # <<>>
      [] v.t = "list" -> v.l # <<>>
      [] v.t = "int" -> v.i # 0

Min(a, b) == IF a <= b THEN a ELSE b
Max(a, b) == IF a >= b THEN a ELSE b

----------------------------------------------------------------------------
(* str operations. *)

Digits == {"0", "1", "2", "7"}

LowerChar(c) ==
    CASE c = "A" -> "a"
      [] c = "P" -> "p"
      [] c = "X" -> "x"
      [] OTHER -> c

\* str.lower()
Lower(s) == [i \in 1..Len(s) |-> LowerChar(s[i])]

\* sub in s, for two str
IsSubstring(sub, s) ==
    \E i \in 0..(Len(s) - Len(sub)) : SubSeq(s, i + 1, i + Len(sub)) = sub

\* x in container: substring of a str, element of a list
Contains(container, x) ==
    CASE container.t = "str" -> IsSubstring(x, container.s)
      [] container.t = "list" -> \E i \in 1..Len(container.l) : container.l[i] = x

RECURSIVE LStrip(_)
LStrip(s) == IF s # <<>> /\ Head(s) = " " THEN LStrip(Tail(s)) ELSE s

RECURSIVE RStrip(_)
RStrip(s) ==
    IF s # <<>> /\ s[Len(s)] = " " THEN RStrip(SubSeq(s, 1, Len(s) - 1)) ELSE s

\* str.strip()
Strip(s) == RStrip(LStrip(s))

\* str.split(',')
RECURSIVE Split(_)
Split(s) ==
    IF \E i \in 1..Len(s) : s[i] = ","
    THEN LET i == CHOOSE k \in 1..Len(s) :
                      s[k] = "," /\ \A j \in 1..(k - 1) : s[j] # ","
         IN  <<SubSeq(s, 1, i - 1)>> \o Split(SubSeq(s, i + 1, Len(s)))
    ELSE <<s>>

\* int(code) succeeds; the alphabet holds no sign and no underscore
IsInt(code) == code # <<>> /\ \A i \in 1..Len(code) : code[i] \in Digits

DigitValue(c) ==
    CASE c = "0" -> 0 [] c = "1" -> 1 [] c = "2" -> 2 [] c = "7" -> 7

RECURSIVE IntValue(_)
IntValue(code) ==
    IF code = <<>> THEN 0
    ELSE 10 * IntValue(SubSeq(code, 1, Len(code) - 1)) + DigitValue(code[Len(code)])

----------------------------------------------------------------------------
(* rapidfuzz.fuzz.ratio: the normalized Indel similarity,                  *)
(* 100 * (1 - (len1 + len2 - 2*LCS) / (len1 + len2)), kept as an exact     *)
(* fraction <<numerator, denominator>> in lowest terms.                    *)

RECURSIVE GCD(_, _)
GCD(a, b) == IF b = 0 THEN a ELSE GCD(b, a % b)

Frac(n, d) == IF n = 0 THEN <<0, 1>> ELSE <<n \div GCD(n, d), d \div GCD(n, d)>>

RECURSIVE LCS(_, _)
LCS(s1, s2) ==
    IF s1 = <<>> \/ s2 = <<>> THEN 0
    ELSE IF Head(s1) = Head(s2) THEN 1 + LCS(Tail(s1), Tail(s2))
    ELSE Max(LCS(Tail(s1), s2), LCS(s1, Tail(s2)))

ratio(s1, s2) ==
    IF Len(s1) + Len(s2) = 0 THEN <<100, 1>>
    ELSE Frac(200 * LCS(s1, s2), Len(s1) + Len(s2))

\* a >= b on scores
ScoreGeq(a, b) == a[1] * b[2] >= b[1] * a[2]

ScoreMax(a, b) == IF ScoreGeq(a, b) THEN a ELSE b


----------------------------------------------------------------------------
(* SearchmarkDatabase.search_searchmarks.  D is self.data, a sequence of   *)
(* records (dicts); the working list `results` is a sequence of indices    *)
(* into D, because self.data.copy() copies the list and shares the dicts.  *)

Fields ==
    {"productName", "productNameEng", "registerStatus",
     "asignProductMainCodeList", "applicationNumber", "publicationNumber",
     "registrationNumber", "internationalRegNumbers", "priorityClaimNumList",
     "viennaCodeList"}

Criteria ==
    {"productName", "status", "applicationNumber", "publicationNumber",
     "registrationNumber", "internationalRegNumbers", "priorityClaimNumList",
     "asignProductMainCodeList", "viennaCodeList"}

\* the similarity threshold of the fuzzy name filter
FuzzyThreshold == 40

Score(q) == [t |-> "score", q |-> q]

\* one name's score: 0 unless item.get(field) is truthy
NameScore(item, field, productName) ==
    IF Truthy(item[field]) THEN ratio(productName, Lower(item[field].s))
    ELSE <<0, 1>>

\* similarity_score = max(korean_score, eng_score)
SimilarityScore(item, productName) ==
    ScoreMax(NameScore(item, "productName", productName),
             NameScore(item, "productNameEng", productName))

\* the threshold test written with > in place of >=
FuzzyPassStrict(item, productName) ==
    ~ScoreGeq(<<FuzzyThreshold, 1>>, SimilarityScore(item, productName))

\* if similarity_score >= 40
FuzzyPass(item, productName) ==
    ScoreGeq(SimilarityScore(item, productName), <<FuzzyThreshold, 1>>)

\* item['similarity_score'] = similarity_score, written on the shared dict
Annotate(D, productName) ==
    [i \in 1..Len(D) |->
        IF FuzzyPass(D[i], productName)
        THEN [D[i] EXCEPT !.similarity_score =
                 Score(SimilarityScore(D[i], productName))]
        ELSE D[i]]

\* the insertion that puts x in front of the records of equal score
RECURSIVE InsertDescStrict(_, _, _)
InsertDescStrict(sorted, x, D) ==
    IF sorted = <<>> THEN <<x>>
    ELSE IF ~ScoreGeq(D[x].similarity_score.q, D[Head(sorted)].similarity_score.q)
         THEN <<Head(sorted)>> \o InsertDescStrict(Tail(sorted), x, D)
         ELSE <<x>> \o sorted

RECURSIVE InsertDesc(_, _, _)
InsertDesc(sorted, x, D) ==
    IF sorted = <<>> THEN <<x>>
    ELSE IF ScoreGeq(D[Head(sorted)].similarity_score.q, D[x].similarity_score.q)
         THEN <<Head(sorted)>> \o InsertDesc(Tail(sorted), x, D)
         ELSE <<x>> \o sorted

RECURSIVE SortFrom(_, _, _)
SortFrom(sorted, rest, D) ==
    IF rest = <<>> THEN sorted
    ELSE SortFrom(InsertDesc(sorted, Head(rest), D), Tail(rest), D)

RECURSIVE InsertAsc(_, _, _)
InsertAsc(sorted, x, D) ==
    IF sorted = <<>> THEN <<x>>
    ELSE IF ScoreGeq(D[x].similarity_score.q, D[Head(sorted)].similarity_score.q)
         THEN <<Head(sorted)>> \o InsertAsc(Tail(sorted), x, D)
         ELSE <<x>> \o sorted

RECURSIVE SortAscFrom(_, _, _)
SortAscFrom(sorted, rest, D) ==
    IF rest = <<>> THEN sorted
    ELSE SortAscFrom(InsertAsc(sorted, Head(rest), D), Tail(rest), D)

\* sorted(fuzzy_results, key=similarity_score)[::-1]: ascending, then reversed
SortedThenReversed(fuzzy_results, D) ==
    LET asc == SortAscFrom(<<>>, fuzzy_results, D)
    IN  [i \in 1..Len(asc) |-> asc[Len(asc) + 1 - i]]

\* sorted(fuzzy_results, key=similarity_score, reverse=True): stable
SortedByScore(fuzzy_results, D) == SortFrom(<<>>, fuzzy_results, D)

\* the non-fuzzy name test: the query is lowercased, the record's name is not
NameMatch(item, productName) ==
    \/ Truthy(item.productName) /\ Contains(item.productName, productName)
    \/ Truthy(item.productNameEng) /\ Contains(item.productNameEng, productName)

\* item.get('registerStatus') == status
StatusMatch(item, status) == item.registerStatus = status

\* one token of the code filter: trimmed, then "0" put in front when int(code) < 10
FormatCode(token) ==
    LET code == Strip(token)
    IN  IF IsInt(code)
        THEN IF IntValue(code) < 10 THEN <<"0">> \o code ELSE code
        ELSE code

formatted_codes(asignProductMainCodeList) ==
    LET code_list == Split(asignProductMainCodeList)
    IN  [i \in 1..Len(code_list) |-> FormatCode(code_list[i])]

CodeMatch(item, codes) ==
    /\ Truthy(item.asignProductMainCodeList)
    /\ \E i \in 1..Len(codes) : Contains(item.asignProductMainCodeList, codes[i])

\* the field test with a list searched element by element for a substring
FieldMatchSubstring(item, field, value) ==
    /\ Truthy(item[field])
    /\ IF item[field].t = "list"
       THEN \E i \in 1..Len(item[field].l) : IsSubstring(value, item[field].l[i])
       ELSE Contains(item[field], value)

\* item.get(field) and value in item[field]
FieldMatch(item, field, value) ==
    Truthy(item[field]) /\ Contains(item[field], value)

\* results[:limit]
Slice(results, limit) ==
    IF limit.t = "null" THEN results
    ELSE IF limit.i >= 0 THEN SubSeq(results, 1, Min(limit.i, Len(results)))
    ELSE SubSeq(results, 1, Max(0, Len(results) + limit.i))

Indices(D) == [i \in 1..Len(D) |-> i]

\* lines 78-107: the name step; gives the Dataset after it and the working list
NameStep(D, q) ==
    IF Truthy(q.productName)
    THEN LET productName == Lower(q.productName.s)
         IN  IF q.use_fuzzy_search
             THEN LET D2 == Annotate(D, productName)
                      Pass(i) == FuzzyPass(D[i], productName)
                  IN  [data |-> D2,
                       results |-> SortedByScore(SelectSeq(Indices(D), Pass), D2)]
             ELSE LET Pass(i) == NameMatch(D[i], productName)
                  IN  [data |-> D, results |-> SelectSeq(Indices(D), Pass)]
    ELSE [data |-> D, results |-> Indices(D)]

StatusStep(D, q, results) ==
    IF Truthy(q.status)
    THEN LET Pass(i) == StatusMatch(D[i], q.status) IN SelectSeq(results, Pass)
    ELSE results

CodeStep(D, q, results) ==
    IF Truthy(q.asignProductMainCodeList)
    THEN LET codes == formatted_codes(q.asignProductMainCodeList.s)
             Pass(i) == CodeMatch(D[i], codes)
         IN  SelectSeq(results, Pass)
    ELSE results

FieldStep(D, q, field, results) ==
    IF Truthy(q[field])
    THEN LET Pass(i) == FieldMatch(D[i], field, q[field].s) IN SelectSeq(results, Pass)
    ELSE results

search_searchmarks(D, q) ==
    LET n == NameStep(D, q)
        r1 == StatusStep(D, q, n.results)
        r2 == CodeStep(D, q, r1)
        r3 == FieldStep(D, q, "applicationNumber", r2)
        r4 == FieldStep(D, q, "publicationNumber", r3)
        r5 == FieldStep(D, q, "registrationNumber", r4)
        r6 == FieldStep(D, q, "internationalRegNumbers", r5)
        r7 == FieldStep(D, q, "priorityClaimNumList", r6)
        r8 == FieldStep(D, q, "viennaCodeList", r7)
    IN  [data |-> n.data, results |-> Slice(r8, q.limit)]

----------------------------------------------------------------------------
(* SearchmarkDatabase.get_statistics. *)

\* the sentinel key '미분류' (unclassified) of item.get('registerStatus', ...)
Unclassified == Str(<<"unclassified">>)

\* item.get('registerStatus', '미분류'): the default only when the key is absent
StatusKey(item) ==
    IF item.registerStatus.t = "absent" THEN Unclassified ELSE item.registerStatus

get_statistics(D) ==
    IF D = <<>> THEN [total |-> 0]
    ELSE LET keys == {StatusKey(D[i]) : i \in 1..Len(D)}
         IN  [total |-> Len(D),
              status_counts |->
                  [k \in keys |-> Cardinality({i \in 1..Len(D) : StatusKey(D[i]) = k})]]

----------------------------------------------------------------------------
(* The inputs: sample records of the Dataset file and request parameters.  *)

Rec(pn, pe, st, codes, app, pub, reg, intl, prio, vienna) ==
    [productName |-> pn, productNameEng |-> pe, registerStatus |-> st,
     asignProductMainCodeList |-> codes, applicationNumber |-> app,
     publicationNumber |-> pub, registrationNumber |-> reg,
     internationalRegNumbers |-> intl, priorityClaimNumList |-> prio,
     viennaCodeList |-> vienna, similarity_score |-> Absent]

Ra == Rec(Str(<<"A", "p">>), Absent, Str(<<"R">>), List(<< <<"0", "7">> >>),
          Str(<<"0", "1", "2">>), Absent, List(<< <<"1", "2">> >>),
          Absent, List(<< <<"7">> >>), List(<< <<"0", "1", "2">> >>))

Rb == Rec(Str(<<"a", "x", "y">>), Str(<<"a", "p">>), None, List(<< <<"7">> >>),
          Absent, Str(<<"1", "2">>), List(<< <<"0", "1", "2">> >>),
          Str(<<"1", "7">>), List(<< <<"7">> >>), List(<< <<"0", "1">>, <<"7">> >>))

Rc == Rec(Absent, Str(<<"p", "x", "a">>), Absent, Str(<<"0", "7", ",", "1", "2">>),
          Str(<<"7">>), Str(<<"2">>), Absent, List(<< <<"7">> >>),
          Str(<<"1", "7">>), None)

Re == Rec(None, Str(<<>>), Str(<<"X">>), List(<< <<"0", "0", "7">>, <<"a">> >>),
          None, Absent, List(<<>>), None, None, Str(<<"0", "1", "2">>))

SampleRecords == {Ra, Rb, Rc, Re}

RECURSIVE SeqsUpTo(_, _)
SeqsUpTo(S, n) ==
    IF n = 0 THEN {<<>>}
    ELSE LET shorter == SeqsUpTo(S, n - 1)
         IN  shorter \cup
             {Append(s, x) : s \in {t \in shorter : Len(t) = n - 1}, x \in S}

\* the Datasets that Init draws: sequences of distinct sample records
Datasets ==
    {D \in SeqsUpTo(SampleRecords, MaxRecords) :
        \A i, j \in 1..Len(D) : D[i] = D[j] => i = j}

Limits == {Num(i) : i \in 0..MaxLimit}

AllQueries ==
    [productName : {None, Str(<<"a", "p">>), Str(<<"A", "x", "x">>)},
     status : {None, Str(<<"R">>)},
     applicationNumber : {None, Str(<<"0", "1">>)},
     publicationNumber : {None, Str(<<"1", "2">>)},
     registrationNumber : {None, Str(<<"1", "2">>)},
     internationalRegNumbers : {None, Str(<<"7">>)},
     priorityClaimNumList : {None, Str(<<"7">>)},
     asignProductMainCodeList :
         {None, Str(<<"7">>), Str(<<"0", "7">>), Str(<<"a", ",", " ", "1", "2">>)},
     viennaCodeList : {None, Str(<<"0", "1">>)},
     limit : Limits \cup {None},
     use_fuzzy_search : BOOLEAN]

Specified(q) == {c \in Criteria : q[c] # None}

Queries == {q \in AllQueries : Cardinality(Specified(q)) <= MaxCriteria}

\* requests that run the fuzzy ranker
RankQueries == {q \in Queries : Truthy(q.productName) /\ q.use_fuzzy_search}

\* requests without a name filter
FieldQueries == {q \in Queries : q.productName = None}

\* requests with limit=None; the fuzzy flag is set only beside a name filter
UnlimitedQueries ==
    {q \in Queries :
        q.limit = None /\ (q.use_fuzzy_search => Truthy(q.productName))}

----------------------------------------------------------------------------
(* The state machine.  data is db.data; loaded is the Dataset as           *)
(* _load_data returned it; request and response are the call being served  *)
(* and its return value; again is a search run over the records that the   *)
(* last search returned.                                                   *)

Nothing == [op |-> "none"]

Init ==
    /\ loaded \in Datasets
    /\ data = loaded
    /\ pc = "idle"
    /\ request = Nothing
    /\ response = Nothing
    /\ again = Nothing

\* math.ceil(total / limit), limit > 0
Ceil(total, limit) == (total + limit - 1) \div limit

\* GET /searchmarks/search
search_endpoint(q) ==
    LET no_criteria == \A c \in Criteria : q[c].t = "null"
        r == search_searchmarks(data, [q EXCEPT !.limit = None])
        found == IF no_criteria THEN Indices(data) ELSE r.results
    IN  /\ pc = "idle"
        /\ q.limit # None
        /\ data' = IF no_criteria THEN data ELSE r.data
        /\ request' = [op |-> "search_endpoint", q |-> q]
        /\ response' =
               IF q.limit.i = 0
               THEN [kind |-> "error", error |-> "ZeroDivisionError"]
               ELSE [kind |-> "page",
                     total |-> Len(found),
                     total_pages |-> Ceil(Len(found), q.limit.i),
                     limit |-> q.limit.i,
                     data |-> Slice(found, q.limit)]
        /\ pc' = "responded"
        /\ UNCHANGED <<loaded, again>>

\* db.search_searchmarks(...), called directly
db_search(q) ==
    LET r == search_searchmarks(data, q)
    IN  /\ pc = "idle"
        /\ data' = r.data
        /\ request' = [op |-> "search_searchmarks", q |-> q]
        /\ response' = [kind |-> "list", data |-> r.results]
        /\ pc' = "responded"
        /\ UNCHANGED <<loaded, again>>

\* db.get_statistics()
db_statistics ==
    /\ pc = "idle"
    /\ request' = [op |-> "get_statistics"]
    /\ response' = [kind |-> "stats", body |-> get_statistics(data)]
    /\ pc' = "responded"
    /\ UNCHANGED <<data, loaded, again>>

\* a second SearchmarkDatabase over the records the last unlimited search
\* returned, searched with criteria that keep all of the first search's
search_again(q2) ==
    LET D2 == [i \in 1..Len(response.data) |-> data[response.data[i]]]
        r == search_searchmarks(D2, q2)
    IN  /\ pc = "responded"
        /\ request.op = "search_searchmarks"
        /\ request.q.limit = None
        /\ again = Nothing
        /\ q2.limit = None
        /\ q2.use_fuzzy_search = request.q.use_fuzzy_search
        /\ \A c \in Specified(request.q) : q2[c] = request.q[c]
        /\ again' = [op |-> "search_searchmarks", q |-> q2,
                     data |-> [i \in 1..Len(r.results) |->
                                  response.data[r.results[i]]]]
        /\ UNCHANGED <<data, loaded, pc, request, response>>

\* the return value is handed over; the process waits for the next call
Return ==
    /\ pc = "responded"
    /\ pc' = "idle"
    /\ request' = Nothing
    /\ response' = Nothing
    /\ again' = Nothing
    /\ UNCHANGED <<data, loaded>>

Next ==
    \/ \E q \in Queries : search_endpoint(q)
    \/ \E q \in Queries : db_search(q)
    \/ db_statistics
    \/ \E q2 \in Queries : search_again(q2)
    \/ Return

Spec == Init /\ [][Next]_vars

\* fuzzy name searches only
NextRank ==
    \/ \E q \in RankQueries : search_endpoint(q)
    \/ \E q \in RankQueries : db_search(q)
    \/ Return

SpecRank == Init /\ [][NextRank]_vars

\* searches without a name filter
NextFields ==
    \/ \E q \in FieldQueries : search_endpoint(q)
    \/ \E q \in FieldQueries : db_search(q)
    \/ Return

SpecFields == Init /\ [][NextFields]_vars

\* unlimited searches, each followed by a search over its result
NextCompose ==
    \/ \E q \in UnlimitedQueries : db_search(q)
    \/ \E q2 \in UnlimitedQueries : search_again(q2)
    \/ Return

SpecCompose == Init /\ [][NextCompose]_vars

----------------------------------------------------------------------------
(* Vocabulary of the properties. *)

Range(f) == {f[i] : i \in DOMAIN f}

SearchResponded ==
    pc = "responded" /\ request.op \in {"search_searchmarks", "search_endpoint"}

CoreResponded == pc = "responded" /\ request.op = "search_searchmarks"

\* the fuzzy ranker ran for the request being served
RankerRan ==
    SearchResponded /\ Truthy(request.q.productName) /\ request.q.use_fuzzy_search

\* the request's only criterion is c, and nothing truncates the result
OnlyCriterion(c) ==
    CoreResponded /\ Specified(request.q) = {c} /\ request.q.limit = None

----------------------------------------------------------------------------
\* C1: after any sequence of searches the Dataset in self.data is exactly
\* the Dataset as loaded: same records, same order, same fields and values.
C1_DatasetUnchanged == data = loaded

\* C2: a non-fuzzy search by name q returns, in Dataset order, exactly the
\* records whose lowercased primary name or lowercased English name contains
\* lowercase(q).
C2_NameFilterCaseInsensitive ==
    (OnlyCriterion("productName") /\ ~request.q.use_fuzzy_search) =>
        LET wanted == Lower(request.q.productName.s)
            Has(i, f) ==
                /\ loaded[i][f].t = "str"
                /\ IsSubstring(wanted, Lower(loaded[i][f].s))
            Test(i) == Has(i, "productName") \/ Has(i, "productNameEng")
        IN  response.data = SelectSeq(Indices(loaded), Test)

\* C3: the code-list filters "7" and "07" return the same result, and a
\* record whose main-code list contains "07" is in it.
C3_CodeFilterNormalized ==
    (OnlyCriterion("asignProductMainCodeList")
        /\ request.q.asignProductMainCodeList = Str(<<"0", "7">>)) =>
        /\ response.data =
               search_searchmarks(loaded,
                   [request.q EXCEPT !.asignProductMainCodeList = Str(<<"7">>)]).results
        /\ \A i \in 1..Len(loaded) :
               (loaded[i].asignProductMainCodeList.t = "list"
                   /\ <<"0", "7">> \in Range(loaded[i].asignProductMainCodeList.l))
               => i \in Range(response.data)

\* C7: a search returns the first min(limit, matches) records of the filtered
\* sequence (all of them for limit=None, none for limit=0), and the endpoint
\* answers a request without criteria with the first `limit` records of the
\* Dataset and total = len(Dataset).
C7_LimitIsPrefix ==
    SearchResponded =>
        LET q == request.q
            full == search_searchmarks(loaded, [q EXCEPT !.limit = None]).results
            prefix == IF q.limit = None THEN full
                      ELSE SubSeq(full, 1, Min(q.limit.i, Len(full)))
        IN  IF request.op = "search_searchmarks"
            THEN response.data = prefix
            ELSE /\ response.kind = "page"
                 /\ response.data = prefix
                 /\ Specified(q) = {} =>
                        /\ response.data =
                               SubSeq(Indices(loaded), 1, Min(q.limit.i, Len(loaded)))
                        /\ response.total = Len(loaded)

RECURSIVE SumOver(_, _)
SumOver(f, S) ==
    IF S = {} THEN 0
    ELSE LET k == CHOOSE x \in S : TRUE IN f[k] + SumOver(f, S \ {k})

\* C8: statistics gives total = len(Dataset) and status_counts, where each
\* status is counted, a record without a status (absent or null) is counted
\* under the sentinel key, and the counts add up to total.
C8_StatisticsCounts ==
    (pc = "responded" /\ request.op = "get_statistics") =>
        LET body == response.body
            Key(i) == IF loaded[i].registerStatus.t \in {"absent", "null"}
                      THEN Unclassified
                      ELSE loaded[i].registerStatus
            keys == {Key(i) : i \in 1..Len(loaded)}
        IN  /\ body.total = Len(loaded)
            /\ "status_counts" \in DOMAIN body
            /\ DOMAIN body.status_counts = keys
            /\ \A k \in keys :
                   body.status_counts[k] =
                       Cardinality({i \in 1..Len(loaded) : Key(i) = k})
            /\ SumOver(body.status_counts, keys) = body.total

\* C10: a returned record is the record as loaded, with no similarity score
\* when the search did not run the fuzzy ranker and with exactly this
\* search's score when it did, whatever searches ran before.
C10_ScoreIsPerQuery ==
    (SearchResponded /\ response.kind # "error") =>
        \A i \in Range(response.data) :
            IF RankerRan
            THEN data[i] =
                     [loaded[i] EXCEPT !.similarity_score =
                         Score(SimilarityScore(loaded[i],
                                               Lower(request.q.productName.s)))]
            ELSE data[i] = loaded[i]

----------------------------------------------------------------------------
\* the name's similarity to the lowercased query is at least 40 of 100
SimilarEnough(item, f, wanted) ==
    /\ item[f].t = "str"
    /\ item[f].s # <<>>
    /\ 200 * LCS(wanted, Lower(item[f].s)) >= 40 * (Len(wanted) + Len(item[f].s))

\* C4: in fuzzy mode a record passes the name step iff the better of its two
\* name similarities is at least 40; a missing or empty name counts as 0, so
\* a record with neither name never passes.
C4_FuzzyThreshold ==
    (RankerRan /\ Specified(request.q) = {"productName"}
        /\ response.kind # "error") =>
        LET wanted == Lower(request.q.productName.s)
            passing == {i \in 1..Len(loaded) :
                           \/ SimilarEnough(loaded[i], "productName", wanted)
                           \/ SimilarEnough(loaded[i], "productNameEng", wanted)}
        IN  /\ Range(response.data) \subseteq passing
            /\ request.q.limit = None => Range(response.data) = passing
            /\ request.op = "search_endpoint" =>
                   response.total = Cardinality(passing)

\* a record scoring exactly 40 is returned, a record with a name that scores
\* less is not, and neither is a record without any name
C4_Witness ==
    /\ RankerRan
    /\ Specified(request.q) = {"productName"}
    /\ request.q.limit = None
    /\ \E i \in Range(response.data) : data[i].similarity_score = Score(<<40, 1>>)
    /\ \E j \in 1..Len(loaded) :
           /\ j \notin Range(response.data)
           /\ Truthy(loaded[j].productName) \/ Truthy(loaded[j].productNameEng)
    /\ \E k \in 1..Len(loaded) :
           /\ k \notin Range(response.data)
           /\ ~Truthy(loaded[k].productName)
           /\ ~Truthy(loaded[k].productNameEng)

\* the score a returned record carries
Carried(i) == data[i].similarity_score.q

C6_SearchIdempotent ==
    again # Nothing =>
        /\ Range(again.data) \subseteq Range(response.data)
        /\ again.q = request.q => again.data = response.data

\* a fuzzy search with a second criterion whose result is not in Dataset
\* order and holds a pair of equal score, searched again with the same criteria
C6_Witness ==
    /\ again # Nothing
    /\ again.q = request.q
    /\ request.q.use_fuzzy_search
    /\ Cardinality(Specified(request.q)) = 2
    /\ \E a, b \in 1..Len(again.data) :
           a < b /\ again.data[a] > again.data[b]
    /\ \E a, b \in 1..Len(again.data) :
           a < b /\ Carried(again.data[a]) = Carried(again.data[b])

ExactFields ==
    {"applicationNumber", "publicationNumber", "registrationNumber",
     "internationalRegNumbers", "priorityClaimNumList", "viennaCodeList"}

====
